---- MODULE Spec2Model ----
(***************************************************************************)
(* Auth providers of Home Assistant: the provider loader                   *)
(* (homeassistant/auth/providers/__init__.py) and the trusted-networks     *)
(* provider with its login flow (homeassistant/auth/providers/             *)
(* trusted_networks.py).                                                   *)
(*                                                                         *)
(* Python values: a str is a TLA+ string; None (where a str is expected)   *)
(* is the string None below; a dict is a function from its keys; a list    *)
(* is a sequence.  A coroutine is a task with a pc; every step of a task   *)
(* runs from one suspension point (await that really suspends) to the      *)
(* next, as the asyncio event loop runs it.                                *)
(***************************************************************************)
EXTENDS Integers, Sequences, FiniteSets, TLC

VARIABLES
    skip_pip,       \* hass.config.skip_pip
    hass_data,      \* hass.data, restricted to the key DATA_REQS
    ltask,          \* the auth_provider_from_config coroutines
    installCalls,   \* provider type -> calls of async_process_requirements
    installOk,      \* provider type -> calls that reported success
    provider_config,\* config of the TrustedNetworksAuthProvider instance
    users,          \* the store's users, in the order async_get_users lists them
    nextCredId,     \* identity of the next Credentials object constructed
    ctask,          \* the coroutines that call the provider
    calls,          \* number of provider calls started so far
    hass_http,      \* hass.http
    flowCall,       \* the async_credential_flow coroutine
    flow,           \* the LoginFlow it returned
    stepInput,      \* user_input of the last async_step_init
    stepResult,     \* what the last async_step_init returned or raised
    errorShown,     \* the step before the last one returned a form with errors
    accessIp,       \* ip_address of the last direct async_validate_access
    accessResult    \* what that call did

loaderVars == <<skip_pip, hass_data, ltask, installCalls, installOk>>
credVars == <<provider_config, users, nextCredId, ctask, calls>>
flowVars == <<hass_http, flowCall, flow, stepInput, stepResult, errorShown,
              accessIp, accessResult>>

None == "<None>"
NotAStr == "<int 1>"            \* a config value that is not a str

CONF_TYPE == "type"
CONF_NAME == "name"
CONF_ID == "id"
DATA_REQS == "auth_prov_reqs_processed"

(***************************************************************************)
(* The provider modules of the process.  trusted_networks is the module    *)
(* of this repository; the others stand for the three other kinds of type  *)
(* name: a module that declares REQUIREMENTS, a module that imports but    *)
(* registers nothing under its name, and a name with no module.            *)
(***************************************************************************)
ProviderTypes == {"trusted_networks", "with_reqs", "unregistered", "missing"}
Importable == {"trusted_networks", "with_reqs", "unregistered"}
HasRequirements == {"with_reqs", "unregistered"}
AUTH_PROVIDERS == {"trusted_networks", "with_reqs"}

NumLoaders == 3
Loaders == 1..NumLoaders

isinstance_str(v) == v \notin {None, NotAStr}

\* AUTH_PROVIDER_SCHEMA: type required, name and id optional, all str;
\* extra keys allowed.
AUTH_PROVIDER_SCHEMA(config) ==
    /\ CONF_TYPE \in DOMAIN config
    /\ \A k \in DOMAIN config \cap {CONF_TYPE, CONF_NAME, CONF_ID} :
          isinstance_str(config[k])

\* The schema extended without extra=vol.PREVENT_EXTRA.
CONFIG_SCHEMA_allow_extra(config) == AUTH_PROVIDER_SCHEMA(config)

\* trusted_networks.CONFIG_SCHEMA: the same, extra keys prevented.
CONFIG_SCHEMA(config) ==
    /\ AUTH_PROVIDER_SCHEMA(config)
    /\ DOMAIN config \subseteq {CONF_TYPE, CONF_NAME, CONF_ID}

module_CONFIG_SCHEMA(module, config) ==
    IF module = "trusted_networks" THEN CONFIG_SCHEMA(config)
    ELSE AUTH_PROVIDER_SCHEMA(config)

\* The configs handed to auth_provider_from_config.
Configs ==
    {[type |-> p] : p \in ProviderTypes}
    \cup {[type |-> "trusted_networks", name |-> "Home"],
          [type |-> "trusted_networks", id |-> "a"],
          [type |-> "trusted_networks", name |-> NotAStr],
          [type |-> "trusted_networks", id |-> NotAStr],
          [type |-> "trusted_networks", extra |-> "x"]}

\* auth_provider_from_config after load_auth_provider_module returned.
from_config_result(config, module) ==
    IF module = None THEN [kind |-> "None"]
    ELSE IF ~module_CONFIG_SCHEMA(module, config) THEN [kind |-> "None"]
    ELSE IF config[CONF_TYPE] \notin AUTH_PROVIDERS
         THEN [kind |-> "raise", exc |-> "KeyError"]
    ELSE [kind |-> "provider", config |-> config]

IdleTask == [pc |-> "idle", config |-> [type |-> "missing"],
             module |-> None, result |-> [kind |-> "None"],
             installed |-> FALSE, readCache |-> FALSE]

LoaderStart ==
    /\ skip_pip \in BOOLEAN
    /\ hass_data = << >>
    /\ ltask = [t \in Loaders |-> IdleTask]
    /\ installCalls = [p \in ProviderTypes |-> 0]
    /\ installOk = [p \in ProviderTypes |-> 0]

\* The test of line 132 without hass.config.skip_pip.
returns_early_ignoring_skip_pip(skip, provider) ==
    provider \notin HasRequirements

\* hass.config.skip_pip or not hasattr(module, 'REQUIREMENTS') (line 132)
returns_early(skip, provider) ==
    skip \/ provider \notin HasRequirements

\* hass.data[DATA_REQS] = set() whether or not a set is there.
processed_or_new_always_new(data) == [k \in {DATA_REQS} |-> {}]

\* hass.data after lines 135-138: the set is created when there is none.
processed_or_new(data) ==
    IF DATA_REQS \in DOMAIN data THEN data
    ELSE [k \in {DATA_REQS} |-> {}]

\* processed.add(provider) before the test of req_success.
processed_after_added_first(data, provider, req_success) ==
    [data EXCEPT ![DATA_REQS] = @ \cup {provider}]

\* hass.data after lines 147-150: the type is added on success only.
processed_after(data, provider, req_success) ==
    IF req_success THEN [data EXCEPT ![DATA_REQS] = @ \cup {provider}]
    ELSE data

Finished(t, config, module, inst, rd) ==
    ltask' = [ltask EXCEPT ![t] =
                [pc |-> "done", config |-> config, module |-> module,
                 result |-> from_config_result(config, module),
                 installed |-> inst, readCache |-> rd]]

\* load_auth_provider_module up to its return or to the await of the
\* installer (lines 125-145), called from auth_provider_from_config.
LoadStart(t, config) ==
    LET provider == config[CONF_TYPE] IN
    /\ ltask[t].pc = "idle"
    /\ IF provider \notin Importable
       THEN /\ Finished(t, config, None, FALSE, FALSE)
            /\ UNCHANGED <<hass_data, installCalls>>
       ELSE IF returns_early(skip_pip, provider)
       THEN /\ Finished(t, config, provider, FALSE, FALSE)
            /\ UNCHANGED <<hass_data, installCalls>>
       ELSE IF DATA_REQS \in DOMAIN hass_data
               /\ provider \in hass_data[DATA_REQS]
       THEN /\ Finished(t, config, provider, FALSE, TRUE)
            /\ UNCHANGED <<hass_data, installCalls>>
       ELSE /\ hass_data' = processed_or_new(hass_data)
            /\ installCalls' = [installCalls EXCEPT ![provider] = @ + 1]
            /\ ltask' = [ltask EXCEPT ![t] =
                  [pc |-> "installing", config |-> config, module |-> None,
                   result |-> [kind |-> "None"],
                   installed |-> TRUE, readCache |-> TRUE]]
    /\ UNCHANGED <<skip_pip, installOk, credVars, flowVars>>

\* async_process_requirements returns req_success (lines 144-151).
InstallReturn(t, req_success) ==
    LET config == ltask[t].config
        provider == config[CONF_TYPE] IN
    /\ ltask[t].pc = "installing"
    /\ hass_data' = processed_after(hass_data, provider, req_success)
    /\ IF ~req_success
       THEN /\ Finished(t, config, None, TRUE, TRUE)
            /\ UNCHANGED installOk
       ELSE /\ installOk' = [installOk EXCEPT ![provider] = @ + 1]
            /\ Finished(t, config, provider, TRUE, TRUE)
    /\ UNCHANGED <<skip_pip, installCalls, credVars, flowVars>>

NextLoader ==
    \/ \E t \in Loaders, config \in Configs : LoadStart(t, config)
    \/ \E t \in Loaders, req_success \in BOOLEAN : InstallReturn(t, req_success)


(***************************************************************************)
(* AuthProvider and TrustedNetworksAuthProvider over the store.            *)
(***************************************************************************)
NumCallers == 2
Callers == 1..NumCallers

DEFAULT_TITLE == "Trusted Networks"

dict_get(d, k, default) == IF k \in DOMAIN d THEN d[k] ELSE default

\* AuthProvider.id, .type, .name
id(config) == dict_get(config, CONF_ID, None)
type(config) == config[CONF_TYPE]

\* name without the subclass's DEFAULT_TITLE: the base class's title.
name_base_title(config) ==
    dict_get(config, CONF_NAME, "Unnamed auth provider")

name(config) == dict_get(config, CONF_NAME, DEFAULT_TITLE)

\* Credentials created without the provider's id.
async_create_credentials_without_id(config, data, newId) ==
    [id |-> newId, auth_provider_type |-> type(config),
     auth_provider_id |-> None, data |-> data]

\* AuthProvider.async_create_credentials: a new Credentials object.
async_create_credentials(config, data, newId) ==
    [id |-> newId, auth_provider_type |-> type(config),
     auth_provider_id |-> id(config), data |-> data]

\* The condition without the comparison of auth_provider_id.
credentials_match_type_only(config, credentials) ==
    credentials.auth_provider_type = type(config)

\* The condition of the comprehension in AuthProvider.async_credentials.
credentials_match(config, credentials) ==
    /\ credentials.auth_provider_type = type(config)
    /\ credentials.auth_provider_id = id(config)

RECURSIVE credentials_of(_, _)
\* The list comprehension of async_credentials over the users just read.
credentials_of(config, us) ==
    IF us = << >> THEN << >>
    ELSE SelectSeq(Head(us).credentials,
                   LAMBDA c : credentials_match(config, c))
         \o credentials_of(config, Tail(us))

\* Where a for loop that leaves at the first match stops: the least of the
\* matching indices, or 0 when the loop runs to its end.
first_index(hits) ==
    IF hits = {} THEN 0 ELSE CHOOSE i \in hits : \A j \in hits : i <= j

\* The outer loop comparing the id only, without either flag.
find_user_by_id_only(us, user_id) ==
    first_index({i \in 1..Len(us) : us[i].id = user_id})

\* The outer loop without the test of user.is_active.
find_user_any_activity(us, user_id) ==
    first_index({i \in 1..Len(us) : /\ ~us[i].system_generated
                                     /\ us[i].id = user_id})

\* The outer loop of async_get_or_create_credentials (lines 56-59).
find_user(us, user_id) ==
    first_index({i \in 1..Len(us) : /\ ~us[i].system_generated
                                     /\ us[i].is_active
                                     /\ us[i].id = user_id})

\* The inner loop comparing the provider id instead of data['user_id'].
find_credential_wrong_key(creds, user_id) ==
    first_index({i \in 1..Len(creds) :
                    creds[i].auth_provider_id = user_id})

\* The inner loop of async_get_or_create_credentials (lines 60-62).
find_credential(creds, user_id) ==
    first_index({i \in 1..Len(creds) :
                    creds[i].data["user_id"] = user_id})

\* AuthStore.async_link_user: user.credentials.append(credentials), on the
\* user object if the store still holds it.
link_user(us, uid, cred) ==
    [i \in 1..Len(us) |->
        IF us[i].id = uid
        THEN [us[i] EXCEPT !.credentials = Append(@, cred)]
        ELSE us[i]]

User(uid, nm, sys, act, creds) ==
    [id |-> uid, name |-> nm, system_generated |-> sys, is_active |-> act,
     credentials |-> creds]

\* Credentials of other provider instances already in the store.
ForeignCredentials(pid) ==
    {[id |-> 101, auth_provider_type |-> "trusted_networks",
      auth_provider_id |-> IF pid = None THEN "a" ELSE None,
      data |-> [user_id |-> "u1"]],
     [id |-> 102, auth_provider_type |-> "trusted_networks",
      auth_provider_id |-> "b", data |-> [user_id |-> "u1"]],
     [id |-> 103, auth_provider_type |-> "homeassistant",
      auth_provider_id |-> pid, data |-> [username |-> "u1"]]}

RECURSIVE SeqOfSet(_)
SeqOfSet(S) ==
    IF S = {} THEN << >>
    ELSE LET c == CHOOSE x \in S : \A y \in S : x.id <= y.id
         IN <<c>> \o SeqOfSet(S \ {c})

UserIds == {"u1", "u2", "sys", "off", "ghost"}

NoResult == [kind |-> "None"]
IdleCaller == [pc |-> "idle", op |-> "none", user_id |-> "ghost",
               cred |-> NoResult, result |-> NoResult,
               linkCalls |-> 0, started |-> 0]

CredsStart ==
    /\ provider_config \in
          {[type |-> "trusted_networks"],
           [type |-> "trusted_networks", id |-> "a"],
           [type |-> "trusted_networks", name |-> "Home"]}
    /\ \E F \in SUBSET ForeignCredentials(id(provider_config)) :
          users = << User("u1", "Alice", FALSE, TRUE, SeqOfSet(F)),
                     User("sys", "Supervisor", TRUE, TRUE, << >>),
                     User("off", None, FALSE, FALSE, << >>),
                     User("u2", "Bob", FALSE, TRUE, << >>) >>
    /\ nextCredId = 1
    /\ ctask = [t \in Callers |-> IdleCaller]
    /\ calls = 0

\* async_get_or_create_credentials called; it suspends in
\* store.async_get_users (line 55).
GetOrCreateCall(t, user_id) ==
    /\ ctask[t].pc = "idle"
    /\ calls' = calls + 1
    /\ ctask' = [ctask EXCEPT ![t] =
          [@ EXCEPT !.pc = "get_users", !.op = "get_or_create",
                    !.user_id = user_id, !.started = calls + 1]]
    /\ UNCHANGED <<provider_config, users, nextCredId,
                   loaderVars, flowVars>>

\* async_get_users returned: the loop over users up to the await inside
\* async_credentials (lines 56-60, 63), or the raise of line 68.
GetUsersReturn(t) ==
    /\ ctask[t].pc = "get_users"
    /\ IF find_user(users, ctask[t].user_id) = 0
       THEN ctask' = [ctask EXCEPT ![t] =
               [@ EXCEPT !.pc = "done",
                         !.result = [kind |-> "raise",
                                     exc |-> "InvalidUserError"]]]
       ELSE ctask' = [ctask EXCEPT ![t] = [@ EXCEPT !.pc = "credentials"]]
    /\ UNCHANGED <<provider_config, users, nextCredId, calls,
                   loaderVars, flowVars>>

\* async_credentials returned inside async_get_or_create_credentials: the
\* inner loop, then async_create_credentials and the call of
\* store.async_link_user (lines 60-64).  The store appends to
\* user.credentials either before it suspends or when it resumes.
CredentialsReturn(t, appendNow) ==
    LET user_id == ctask[t].user_id
        creds == credentials_of(provider_config, users)
        i == find_credential(creds, user_id)
        cred == async_create_credentials(provider_config,
                                         [user_id |-> user_id], nextCredId)
    IN
    /\ ctask[t].pc = "credentials"
    /\ IF i # 0
       THEN /\ ctask' = [ctask EXCEPT ![t] =
                 [@ EXCEPT !.pc = "done",
                           !.result = [kind |-> "return",
                                       cred |-> creds[i]]]]
            /\ appendNow      \* no link call: the choice does not apply
            /\ UNCHANGED <<users, nextCredId>>
       ELSE /\ nextCredId' = nextCredId + 1
            /\ users' = IF appendNow THEN link_user(users, user_id, cred)
                        ELSE users
            /\ ctask' = [ctask EXCEPT ![t] =
                 [@ EXCEPT !.pc = IF appendNow THEN "linked" ELSE "linking",
                           !.cred = cred, !.linkCalls = @ + 1]]
    /\ UNCHANGED <<provider_config, calls, loaderVars, flowVars>>

\* store.async_link_user returned; line 65 returns cred.
LinkReturn(t) ==
    /\ ctask[t].pc \in {"linking", "linked"}
    /\ users' = IF ctask[t].pc = "linking"
                THEN link_user(users, ctask[t].user_id, ctask[t].cred)
                ELSE users
    /\ ctask' = [ctask EXCEPT ![t] =
          [@ EXCEPT !.pc = "done",
                    !.result = [kind |-> "return", cred |-> ctask[t].cred]]]
    /\ UNCHANGED <<provider_config, nextCredId, calls,
                   loaderVars, flowVars>>

\* AuthProvider.async_credentials called on its own; it suspends in
\* store.async_get_users (line 63).
CredentialsCall(t) ==
    /\ ctask[t].pc = "idle"
    /\ calls' = calls + 1
    /\ ctask' = [ctask EXCEPT ![t] =
          [@ EXCEPT !.pc = "list_users", !.op = "credentials",
                    !.started = calls + 1]]
    /\ UNCHANGED <<provider_config, users, nextCredId,
                   loaderVars, flowVars>>

\* async_get_users returned to async_credentials (lines 64-70).
CredentialsListed(t) ==
    /\ ctask[t].pc = "list_users"
    /\ ctask' = [ctask EXCEPT ![t] =
          [@ EXCEPT !.pc = "done",
                    !.result = [kind |-> "list",
                                creds |-> credentials_of(provider_config,
                                                         users)]]]
    /\ UNCHANGED <<provider_config, users, nextCredId, calls,
                   loaderVars, flowVars>>

CallerStep(t) ==
    \/ GetUsersReturn(t)
    \/ \E appendNow \in BOOLEAN : CredentialsReturn(t, appendNow)
    \/ LinkReturn(t)
    \/ CredentialsListed(t)

NoCallInFlight == \A t \in Callers : ctask[t].pc \in {"idle", "done"}

NextCreds ==
    \/ \E t \in Callers, user_id \in UserIds : GetOrCreateCall(t, user_id)
    \/ \E t \in Callers : CredentialsCall(t)
    \/ \E t \in Callers : CallerStep(t)

\* One call at a time: a call starts only after the previous one returned.
NextSerial ==
    \/ \E t \in Callers, user_id \in UserIds :
          NoCallInFlight /\ GetOrCreateCall(t, user_id)
    \/ \E t \in Callers : NoCallInFlight /\ CredentialsCall(t)
    \/ \E t \in Callers : CallerStep(t)

(***************************************************************************)
(* async_validate_access and the LoginFlow.                                *)
(*                                                                         *)
(* Addresses are AddrBits wide; a network is a version, a network address  *)
(* with its host bits zero and a prefix length, as ipaddress.ip_network    *)
(* builds it.                                                              *)
(***************************************************************************)
AddrBits == 3
MaxNets == 2

RECURSIVE pow2(_)
pow2(n) == IF n = 0 THEN 1 ELSE 2 * pow2(n - 1)

Address(version, ip) == [version |-> version, ip |-> ip]
Network(version, network_address, prefixlen) ==
    [version |-> version, network_address |-> network_address,
     prefixlen |-> prefixlen]

NoAddress == [kind |-> "None"]

broadcast_address(net) ==
    net.network_address + pow2(AddrBits - net.prefixlen) - 1

\* ip_address in trusted_network (ipaddress._BaseNetwork.__contains__).
network_contains(net, addr) ==
    /\ net.version = addr.version
    /\ net.network_address <= addr.ip
    /\ addr.ip <= broadcast_address(net)

\* Two IPv4 addresses of the lowest network, one of the upper half, one
\* IPv6 address; the lowest two-address IPv4 network, the upper half of
\* IPv4, and all of IPv6.
Addresses == {Address(4, 1), Address(4, 2),
              Address(4, pow2(AddrBits - 1) + 1), Address(6, 1)}
Networks == {Network(4, 0, AddrBits - 1), Network(4, pow2(AddrBits - 1), 1),
             Network(6, 0, 0)}

NetworkLists ==
    UNION {[1..n -> Networks] : n \in 0..MaxNets}

NoHttp == [kind |-> "None"]
Http(nets) == [kind |-> "HomeAssistantHTTP", trusted_networks |-> nets]
NoList == [kind |-> "None"]
List(items) == [kind |-> "list", items |-> items]

HttpStates ==
    {NoHttp, Http(NoList)} \cup {Http(List(l)) : l \in NetworkLists}

\* bool(x) of an optional list
truthy(x) == x.kind = "list" /\ x.items # << >>

RECURSIVE all_contain(_, _)
\* all(...) where the code has any(...)
all_contain(nets, addr) ==
    IF nets = << >> THEN TRUE
    ELSE IF ~network_contains(Head(nets), addr) THEN FALSE
    ELSE all_contain(Tail(nets), addr)

RECURSIVE any_contains(_, _)
\* any(ip_address in trusted_network for trusted_network in ...)
any_contains(nets, addr) ==
    IF nets = << >> THEN FALSE
    ELSE IF network_contains(Head(nets), addr) THEN TRUE
    ELSE any_contains(Tail(nets), addr)

\* TrustedNetworksAuthProvider.async_validate_access: "ok" when it returns,
\* else the exception it raises.  An ip_address of None has no _version:
\* the membership test raises AttributeError.
async_validate_access(http, ip_address) ==
    IF http.kind = "None" \/ ~truthy(http.trusted_networks)
    THEN "InvalidAuthError"
    ELSE IF ip_address = NoAddress THEN "AttributeError"
    ELSE IF ~any_contains(http.trusted_networks.items, ip_address)
    THEN "InvalidAuthError"
    ELSE "ok"

\* data_entry_flow.FlowHandler.async_show_form / async_create_entry
NoSchema == [kind |-> "None"]
Schema(fields) == [kind |-> "Schema", fields |-> fields]
In(container) == [kind |-> "In", container |-> container]

async_show_form(step_id, data_schema, errors) ==
    [type |-> "form", step_id |-> step_id, data_schema |-> data_schema,
     errors |-> errors]

async_create_entry(title, data) ==
    [type |-> "create_entry", title |-> title, data |-> data]

NoInput == [kind |-> "None"]
UserInputs ==
    {NoInput} \cup {[user |-> u] : u \in {"u1", "sys", "ghost"}}
    \cup {[user |-> "u2", remember |-> "yes"]}

NoErrors == << >>
BaseError(code) == [k \in {"base"} |-> code]

\* The errors of a submitted user_input, without the membership test.
step_errors_unchecked(fl, user_input) == NoErrors

\* errors after lines 122-125 of async_step_init.
step_errors(fl, user_input) ==
    IF user_input # NoInput
       /\ user_input["user"] \notin DOMAIN fl._available_users
    THEN BaseError("invalid_auth") ELSE NoErrors

\* The form's schema left out, as in the access-denied branch.
step_schema_absent(fl) == NoSchema

\* vol.Schema({'user': vol.In(self._available_users)}) (lines 133, 137)
step_schema(fl) == Schema([k \in {"user"} |-> In(fl._available_users)])

\* The access-denied form (lines 114-120) showing the selection schema.
access_denied_form_with_schema(fl) ==
    async_show_form("init", step_schema(fl), BaseError("invalid_auth"))

\* The form of lines 114-120.
access_denied_form(fl) ==
    async_show_form("init", NoSchema, BaseError("invalid_auth"))

\* async_step_init validating access only before it shows the form: a
\* submitted user_input is taken without the check.
async_step_init_validate_on_form_only(config, fl, http, user_input) ==
    LET access == async_validate_access(http, fl._ip_address)
        errors == step_errors(fl, user_input)
    IN
    IF user_input # NoInput /\ errors = NoErrors
    THEN async_create_entry(name(config), user_input)
    ELSE IF access = "InvalidAuthError" THEN access_denied_form(fl)
    ELSE IF access # "ok" THEN [type |-> "raise", exc |-> access]
    ELSE async_show_form("init", step_schema(fl), errors)

\* async_step_init with errors kept on the flow between steps instead of
\* the errors = {} of line 110.
async_step_init_keeping_errors(config, fl, http, user_input) ==
    LET access == async_validate_access(http, fl._ip_address)
        kept == IF stepResult.type = "form" THEN stepResult.errors
                ELSE NoErrors
        errors == IF kept # NoErrors THEN kept
                  ELSE step_errors(fl, user_input)
    IN
    IF access = "InvalidAuthError" THEN access_denied_form(fl)
    ELSE IF access # "ok" THEN [type |-> "raise", exc |-> access]
    ELSE IF user_input # NoInput /\ errors = NoErrors
    THEN async_create_entry(name(config), user_input)
    ELSE async_show_form("init", step_schema(fl), errors)

\* LoginFlow.async_step_init: what it returns, or the exception that
\* async_validate_access raised through it.
async_step_init(config, fl, http, user_input) ==
    LET access == async_validate_access(http, fl._ip_address)
        errors == step_errors(fl, user_input)
    IN
    IF access = "InvalidAuthError" THEN access_denied_form(fl)
    ELSE IF access # "ok" THEN [type |-> "raise", exc |-> access]
    ELSE IF user_input # NoInput /\ errors = NoErrors
    THEN async_create_entry(name(config), user_input)
    ELSE async_show_form("init", step_schema(fl), errors)

\* The dict comprehension of async_credential_flow (lines 43-45); a later
\* user with the same id would replace an earlier one.
available_users_of(us) ==
    LET idx == {i \in 1..Len(us) :
                   ~us[i].system_generated /\ us[i].is_active}
        last(uid) == CHOOSE i \in idx :
                        /\ us[i].id = uid
                        /\ \A j \in idx : us[j].id = uid => j <= i
    IN [uid \in {us[i].id : i \in idx} |-> us[last(uid)].name]

LoginFlow(ip_address, available_users) ==
    [kind |-> "LoginFlow", _ip_address |-> ip_address,
     _available_users |-> available_users]

NoFlow == [kind |-> "None"]
NoContext == [kind |-> "None"]
Contexts == {NoContext, << >>} \cup {[ip_address |-> a] : a \in Addresses}

NoCall == [pc |-> "idle", context |-> NoContext]

\* The stores a flow is created over: the users of CredsStart, or a store
\* that holds no user a trusted network may log in as.
FlowStart ==
    /\ provider_config \in
          {[type |-> "trusted_networks"],
           [type |-> "trusted_networks", name |-> "Home"]}
    /\ users \in
          {<< User("u1", "Alice", FALSE, TRUE, << >>),
              User("sys", "Supervisor", TRUE, TRUE, << >>),
              User("off", None, FALSE, FALSE, << >>),
              User("u2", "Bob", FALSE, TRUE, << >>) >>,
           << User("sys", "Supervisor", TRUE, TRUE, << >>) >>}
    /\ nextCredId = 1
    /\ ctask = [t \in Callers |-> IdleCaller]
    /\ calls = 0
    /\ hass_http \in HttpStates
    /\ flowCall = NoCall
    /\ flow = NoFlow
    /\ stepInput = NoInput
    /\ stepResult = [type |-> "none"]
    /\ errorShown = FALSE
    /\ accessIp = NoAddress
    /\ accessResult = "none"

\* async_credential_flow called (lines 41-42): the assert, then it
\* suspends in store.async_get_users.  With assertions compiled out a
\* context of None fails at context.get instead.
CredentialFlowCall(context, exc) ==
    /\ flowCall.pc = "idle"
    /\ IF context = NoContext
       THEN /\ flowCall' = [pc |-> "raised", context |-> context, exc |-> exc]
            /\ flow' = NoFlow
       ELSE /\ flowCall' = [pc |-> "get_users", context |-> context]
            /\ exc = "AssertionError"
            /\ flow' = flow
    /\ UNCHANGED <<hass_http, stepInput, stepResult, errorShown,
                   accessIp, accessResult, loaderVars, credVars>>

\* async_get_users returned to async_credential_flow (lines 43-48).
CredentialFlowReturn ==
    /\ flowCall.pc = "get_users"
    /\ flow' = LoginFlow(dict_get(flowCall.context, "ip_address", NoAddress),
                         available_users_of(users))
    /\ flowCall' = [pc |-> "returned", context |-> flowCall.context]
    /\ stepInput' = NoInput
    /\ stepResult' = [type |-> "none"]
    /\ errorShown' = FALSE
    /\ UNCHANGED <<hass_http, accessIp, accessResult, loaderVars, credVars>>

\* The caller is ready to ask for another flow.
CredentialFlowDone ==
    /\ flowCall.pc \in {"raised", "returned"}
    /\ flowCall' = NoCall
    /\ UNCHANGED <<hass_http, flow, stepInput, stepResult, errorShown,
                   accessIp, accessResult, loaderVars, credVars>>

\* The flow engine calls LoginFlow.async_step_init(user_input).
StepInit(user_input) ==
    /\ flow # NoFlow
    /\ stepInput' = user_input
    /\ stepResult' = async_step_init(provider_config, flow, hass_http,
                                     user_input)
    /\ errorShown' = (stepResult.type = "form" /\ stepResult.errors # NoErrors)
    /\ UNCHANGED <<hass_http, flowCall, flow, accessIp, accessResult,
                   loaderVars, credVars>>

\* A direct call of async_validate_access(ip_address).
ValidateAccess(ip_address) ==
    /\ accessIp' = ip_address
    /\ accessResult' = async_validate_access(hass_http, ip_address)
    /\ UNCHANGED <<hass_http, flowCall, flow, stepInput, stepResult,
                   errorShown, loaderVars, credVars>>

\* The host sets up, or reconfigures, its HTTP component.
ConfigureHttp(http) ==
    /\ hass_http' = http
    /\ UNCHANGED <<flowCall, flow, stepInput, stepResult, errorShown,
                   accessIp, accessResult, loaderVars, credVars>>

\* One login: the store of CredsStart without foreign credentials, and
\* a host that trusts the first IPv4 range.
LoginStart ==
    /\ provider_config = [type |-> "trusted_networks"]
    /\ users = << User("u1", "Alice", FALSE, TRUE, << >>),
                  User("sys", "Supervisor", TRUE, TRUE, << >>),
                  User("off", None, FALSE, FALSE, << >>),
                  User("u2", "Bob", FALSE, TRUE, << >>) >>
    /\ nextCredId = 1
    /\ ctask = [t \in Callers |-> IdleCaller]
    /\ calls = 0
    /\ hass_http = Http(List(<<Network(4, 0, AddrBits - 1)>>))
    /\ flowCall = NoCall
    /\ flow = NoFlow
    /\ stepInput = NoInput
    /\ stepResult = [type |-> "none"]
    /\ errorShown = FALSE
    /\ accessIp = NoAddress
    /\ accessResult = "none"

\* The store drops a user.
RemoveUser(user_id) ==
    /\ \E i \in 1..Len(users) : users[i].id = user_id
    /\ users' = SelectSeq(users, LAMBDA u : u.id # user_id)
    /\ UNCHANGED <<provider_config, nextCredId, ctask, calls,
                   loaderVars, flowVars>>

\* The store marks a user inactive.
DeactivateUser(user_id) ==
    /\ \E i \in 1..Len(users) : users[i].id = user_id /\ users[i].is_active
    /\ users' = [i \in 1..Len(users) |->
                    IF users[i].id = user_id
                    THEN [users[i] EXCEPT !.is_active = FALSE]
                    ELSE users[i]]
    /\ UNCHANGED <<provider_config, nextCredId, ctask, calls,
                   loaderVars, flowVars>>

\* The login flow manager finalizes the entry async_step_init created:
\* async_get_or_create_credentials(flow_result), user_id =
\* flow_result['user'] (line 53).
Finalize(t) ==
    /\ stepResult.type = "create_entry"
    /\ GetOrCreateCall(t, stepResult.data["user"])

NextFlow ==
    \/ \E context \in Contexts, exc \in {"AssertionError", "AttributeError"} :
          CredentialFlowCall(context, exc)
    \/ CredentialFlowReturn
    \/ CredentialFlowDone
    \/ \E user_input \in UserInputs : StepInit(user_input)
    \/ \E http \in HttpStates : ConfigureHttp(http)

NextAccess ==
    \/ \E ip_address \in Addresses : ValidateAccess(ip_address)
    \/ \E http \in HttpStates : ConfigureHttp(http)

\* A login from the flow to the credentials, over a store whose users
\* are removed and deactivated meanwhile.
NextLogin ==
    \/ \E context \in Contexts \ {NoContext} :
          CredentialFlowCall(context, "AssertionError")
    \/ CredentialFlowReturn
    \/ \E user_input \in UserInputs : StepInit(user_input)
    \/ \E user_id \in {"u1", "u2"} : RemoveUser(user_id)
    \/ \E user_id \in {"u1", "u2"} : DeactivateUser(user_id)
    \/ \E t \in Callers : Finalize(t)
    \/ \E t \in Callers : GetUsersReturn(t)
    \/ \E t \in Callers, appendNow \in BOOLEAN : CredentialsReturn(t, appendNow)
    \/ \E t \in Callers : LinkReturn(t)

vars == <<loaderVars, credVars, flowVars>>

LoaderIdle ==
    /\ skip_pip = FALSE
    /\ hass_data = << >>
    /\ ltask = [t \in Loaders |-> IdleTask]
    /\ installCalls = [p \in ProviderTypes |-> 0]
    /\ installOk = [p \in ProviderTypes |-> 0]

CredsIdle ==
    /\ provider_config = [type |-> "trusted_networks"]
    /\ users = << >>
    /\ nextCredId = 1
    /\ ctask = [t \in Callers |-> IdleCaller]
    /\ calls = 0

FlowIdle ==
    /\ hass_http = NoHttp
    /\ flowCall = NoCall
    /\ flow = NoFlow
    /\ stepInput = NoInput
    /\ stepResult = [type |-> "none"]
    /\ errorShown = FALSE
    /\ accessIp = NoAddress
    /\ accessResult = "none"

InitLoader == LoaderStart /\ CredsIdle /\ FlowIdle
InitCreds == CredsStart /\ LoaderIdle /\ FlowIdle
InitFlow == FlowStart /\ LoaderIdle
InitLogin == LoginStart /\ LoaderIdle

SpecLoader == InitLoader /\ [][NextLoader]_vars
SpecCreds == InitCreds /\ [][NextCreds]_vars
SpecSerial == InitCreds /\ [][NextSerial]_vars
SpecFlow == InitFlow /\ [][NextFlow]_vars
SpecAccess == InitFlow /\ [][NextAccess]_vars
SpecLogin == InitLogin /\ [][NextLogin]_vars

(***************************************************************************)
(* Properties.                                                             *)
(***************************************************************************)
Range(seq) == {seq[i] : i \in 1..Len(seq)}

\* Every credentials record the store holds.
StoredCredentials == UNION {Range(users[i].credentials) : i \in 1..Len(users)}

\* The provider's own records whose data.user_id is u, as positions of the
\* store: <<user index, credential index>>.
OwnRecordsFor(u) ==
    {p \in UNION {{<<i, j>> : j \in 1..Len(users[i].credentials)} :
                     i \in 1..Len(users)} :
        LET i == p[1]  j == p[2] IN
        /\ users[i].credentials[j].auth_provider_type = "trusted_networks"
        /\ users[i].credentials[j].auth_provider_id =
              id(provider_config)
        /\ users[i].credentials[j].data = [user_id |-> u]}

\* C1: for every provider type, async_process_requirements is invoked at
\* most once over the process lifetime, however the concurrent
\* load_auth_provider_module calls for that type interleave.
C1_InstallerInvokedAtMostOnce ==
    \A p \in ProviderTypes : installCalls[p] <= 1

\* U is the id of an active user that is not system-generated.
ActiveNonSystem(u) ==
    \E i \in 1..Len(users) :
        /\ users[i].id = u
        /\ ~users[i].system_generated
        /\ users[i].is_active

\* C2: of two successive async_get_or_create_credentials calls for the same
\* active, non-system user, both return, they return the same credentials
\* record, and the second does not call the store's link-user operation.
C2_GetOrCreateIdempotent ==
    \A a, b \in Callers :
        ( /\ ctask[a].op = "get_or_create" /\ ctask[b].op = "get_or_create"
          /\ ctask[a].pc = "done" /\ ctask[b].pc = "done"
          /\ ctask[a].user_id = ctask[b].user_id
          /\ ctask[a].started < ctask[b].started
          /\ ActiveNonSystem(ctask[a].user_id) )
        => /\ ctask[a].result.kind = "return"
           /\ ctask[b].result.kind = "return"
           /\ ctask[b].result.cred = ctask[a].result.cred
           /\ ctask[b].linkCalls = 0

\* The first of two successive calls for u2 created and linked the record,
\* the second has returned.
C2_Witness ==
    \E a, b \in Callers :
        /\ ctask[a].op = "get_or_create" /\ ctask[b].op = "get_or_create"
        /\ ctask[a].pc = "done" /\ ctask[b].pc = "done"
        /\ ctask[a].user_id = "u2" /\ ctask[b].user_id = "u2"
        /\ ctask[a].started < ctask[b].started
        /\ ctask[a].linkCalls = 1
        /\ ctask[b].result.kind = "return"

\* C3: the store holds at most one credentials record of this provider
\* instance for any user id, in every state that logins through the
\* provider reach, interleaved calls for the same user included.
C3_AtMostOneRecordPerUser ==
    \A u \in UserIds : Cardinality(OwnRecordsFor(u)) <= 1

\* U is the id of a system-generated user, of an inactive user, or of no
\* user in the store.
NotLoginable(u) ==
    \A i \in 1..Len(users) :
        users[i].id = u => (users[i].system_generated \/ ~users[i].is_active)

\* C4: when async_get_or_create_credentials reads the users and the
\* requested id is that of a system-generated user, an inactive user or no
\* user, the call ends there with InvalidUserError, has not called the
\* store's link-user operation, and leaves every user's credentials as
\* they were.
C4_InvalidUserRejected ==
    [][\A t \in Callers :
          ( /\ ctask[t].pc = "get_users"
            /\ ctask'[t].pc # "get_users"
            /\ NotLoginable(ctask[t].user_id) )
          => /\ ctask'[t].pc = "done"
             /\ ctask'[t].result = [kind |-> "raise", exc |-> "InvalidUserError"]
             /\ ctask'[t].linkCalls = 0
             /\ users' = users]_vars

\* One call failed for the inactive user and one for an id the store does
\* not hold.
C4_Witness ==
    \E a, b \in Callers :
        /\ ctask[a].pc = "done" /\ ctask[a].user_id = "off"
        /\ ctask[a].result = [kind |-> "raise", exc |-> "InvalidUserError"]
        /\ ctask[b].pc = "done" /\ ctask[b].user_id = "ghost"
        /\ ctask[b].result = [kind |-> "raise", exc |-> "InvalidUserError"]

\* C5: when async_credentials returns, its list holds exactly the stored
\* credentials whose auth_provider_type is the provider's type and whose
\* auth_provider_id is the provider's id (None only equal to None), each
\* once; a record of the same type with another id is not in it.
C5_CredentialsAreOwn ==
    [][\A t \in Callers :
          (ctask[t].pc = "list_users" /\ ctask'[t].pc = "done")
          => LET creds == ctask'[t].result.creds
                 pid == IF CONF_ID \in DOMAIN provider_config
                        THEN provider_config[CONF_ID] ELSE None
             IN /\ Range(creds) =
                      {c \in StoredCredentials :
                          /\ c.auth_provider_type = provider_config[CONF_TYPE]
                          /\ c.auth_provider_id = pid}
                /\ Len(creds) = Cardinality(Range(creds))
                /\ \A c \in StoredCredentials :
                      ( /\ c.auth_provider_type = provider_config[CONF_TYPE]
                        /\ c.auth_provider_id # pid )
                      => c \notin Range(creds)]_vars

\* async_credentials returned a record of its own while the store also
\* holds a trusted_networks record of another provider id.
C5_Witness ==
    \E t \in Callers :
        /\ ctask[t].op = "credentials" /\ ctask[t].pc = "done"
        /\ Len(ctask[t].result.creds) = 1
        /\ \E c \in StoredCredentials :
              /\ c.auth_provider_type = "trusted_networks"
              /\ c.auth_provider_id # id(provider_config)

\* The addresses a network contains.
AddressesIn(net) ==
    {Address(net.version, n) :
        n \in net.network_address ..
              (net.network_address + pow2(AddrBits - net.prefixlen) - 1)}

\* The configured trusted ranges: none without an HTTP component or with
\* an absent list.
ConfiguredRanges ==
    IF hass_http.kind = "None" THEN {}
    ELSE IF hass_http.trusted_networks.kind = "None" THEN {}
    ELSE Range(hass_http.trusted_networks.items)

\* C6: async_validate_access(ip) returns without error exactly when ip is
\* contained in at least one configured range, and raises InvalidAuthError
\* otherwise: with no HTTP component, with an empty or absent list, and
\* with ip outside every range.
C6_ValidateAccess ==
    [][\A ip \in Addresses :
          ValidateAccess(ip)
          => accessResult' =
                IF \E net \in ConfiguredRanges : ip \in AddressesIn(net)
                THEN "ok" ELSE "InvalidAuthError"]_vars

\* Access was granted for an address inside one of two configured ranges
\* and outside the other.
C6_Witness ==
    /\ accessResult = "ok"
    /\ \E n1, n2 \in ConfiguredRanges :
          accessIp \in AddressesIn(n1) /\ accessIp \notin AddressesIn(n2)

\* Access validation fails, or succeeds, for the flow's ip_address.
AccessDenied ==
    async_validate_access(hass_http, flow._ip_address) = "InvalidAuthError"
AccessGranted ==
    async_validate_access(hass_http, flow._ip_address) = "ok"

\* C7: whenever access validation fails for the flow's ip_address,
\* async_step_init returns the form of step 'init' with errors.base =
\* 'invalid_auth' and no data schema, whatever the user_input.
C7_AccessDeniedForm ==
    [][\A user_input \in UserInputs :
          (StepInit(user_input) /\ AccessDenied)
          => stepResult' = [type |-> "form", step_id |-> "init",
                            data_schema |-> NoSchema,
                            errors |-> [k \in {"base"} |-> "invalid_auth"]]]_vars

\* The access-denied form was returned to a submission naming an available
\* user, from an address outside the configured ranges.
C7_Witness ==
    /\ flow # NoFlow
    /\ stepInput # NoInput
    /\ stepInput["user"] \in DOMAIN flow._available_users
    /\ ConfiguredRanges # {}
    /\ AccessDenied
    /\ stepResult.type = "form"
    /\ stepResult.data_schema = NoSchema

\* C8: when access validation succeeds and user_input is absent,
\* async_step_init returns the form of step 'init' whose schema has the
\* single field 'user' offering the flow's available_users, with no errors.
C8_SelectionForm ==
    [][(StepInit(NoInput) /\ AccessGranted)
       => stepResult' =
             [type |-> "form", step_id |-> "init",
              data_schema |->
                 [kind |-> "Schema",
                  fields |-> [k \in {"user"} |->
                                [kind |-> "In",
                                 container |-> flow._available_users]]],
              errors |-> << >>]]_vars

\* The selection form offering Alice and Bob was shown.
C8_Witness ==
    /\ flow # NoFlow
    /\ AccessGranted
    /\ stepInput = NoInput
    /\ stepResult.type = "form"
    /\ stepResult.errors = << >>
    /\ stepResult.data_schema.kind = "Schema"
    /\ stepResult.data_schema.fields["user"].container =
          [u \in {"u1", "u2"} |-> IF u = "u1" THEN "Alice" ELSE "Bob"]

\* C9: when access validation succeeds and user_input.user is not a key of
\* available_users, async_step_init creates no entry: it returns the 'init'
\* form with errors.base = 'invalid_auth' and the user-selection schema.
C9_UnavailableUserForm ==
    [][\A user_input \in UserInputs \ {NoInput} :
          ( /\ StepInit(user_input)
            /\ AccessGranted
            /\ user_input["user"] \notin DOMAIN flow._available_users )
          => stepResult' =
                [type |-> "form", step_id |-> "init",
                 data_schema |->
                    [kind |-> "Schema",
                     fields |-> [k \in {"user"} |->
                                   [kind |-> "In",
                                    container |-> flow._available_users]]],
                 errors |-> [k \in {"base"} |-> "invalid_auth"]]]_vars

\* From a trusted address the system-generated user was submitted to a
\* flow that offers other users, and the form came back.
C9_Witness ==
    /\ flow # NoFlow
    /\ AccessGranted
    /\ stepInput = [user |-> "sys"]
    /\ flow._available_users # << >>
    /\ stepResult.type = "form"
    /\ stepResult.errors # << >>

\* C10: when access validation succeeds and user_input.user is a key of
\* available_users, async_step_init returns a create-entry result whose
\* title is the configured name, or 'Trusted Networks' without one, and
\* whose data is user_input as submitted.
C10_EntryCreated ==
    [][\A user_input \in UserInputs \ {NoInput} :
          ( /\ StepInit(user_input)
            /\ AccessGranted
            /\ user_input["user"] \in DOMAIN flow._available_users )
          => stepResult' =
                [type |-> "create_entry",
                 title |-> IF CONF_NAME \in DOMAIN provider_config
                           THEN provider_config[CONF_NAME]
                           ELSE "Trusted Networks",
                 data |-> user_input]]_vars

\* An entry titled 'Trusted Networks' was created by a provider without a
\* configured name, from a submission carrying a second key.
C10_Witness ==
    /\ CONF_NAME \notin DOMAIN provider_config
    /\ stepResult.type = "create_entry"
    /\ stepResult.title = "Trusted Networks"
    /\ stepResult.data = [user |-> "u2", remember |-> "yes"]

\* C11: a finished auth_provider_from_config whose config names a type
\* that is not registered returned None and raised nothing, also when a
\* module of that name was imported.
C11_UnregisteredYieldsNone ==
    \A t \in Loaders :
        (ltask[t].pc = "done" /\ ltask[t].config["type"] \notin AUTH_PROVIDERS)
        => ltask[t].result = [kind |-> "None"]

\* C12: when skip_pip is set, or the imported module declares no
\* REQUIREMENTS, load_auth_provider_module returns the module in the step
\* that called it, without invoking the installer and without reading or
\* changing the requirement cache.
C12_NoInstallWhenSkipped ==
    [][\A t \in Loaders :
          LET provider == ltask'[t].config["type"] IN
          ( /\ ltask[t].pc = "idle"
            /\ ltask'[t].pc # "idle"
            /\ provider \in Importable
            /\ (skip_pip \/ provider \notin HasRequirements) )
          => /\ ltask'[t].pc = "done"
             /\ ltask'[t].module = provider
             /\ ~ltask'[t].installed
             /\ ~ltask'[t].readCache
             /\ installCalls' = installCalls
             /\ hass_data' = hass_data]_vars

\* With skip_pip set, a module that declares REQUIREMENTS was loaded and
\* the cache was never created.
C12_Witness ==
    /\ skip_pip
    /\ hass_data = << >>
    /\ \E t \in Loaders :
          /\ ltask[t].pc = "done"
          /\ ltask[t].config["type"] = "with_reqs"
          /\ ltask[t].module = "with_reqs"

\* The types of the requirement cache.
Processed ==
    IF DATA_REQS \in DOMAIN hass_data THEN hass_data[DATA_REQS] ELSE {}

\* C13: the cache holds only types of which an installation succeeded;
\* when the installer reports failure, load_auth_provider_module returns
\* None, nothing is raised, and the cache is as it was.
C13_FailedInstallNotCached ==
    /\ [](\A p \in Processed : installOk[p] >= 1)
    /\ [][\A t \in Loaders :
            ( /\ ltask[t].pc = "installing"
              /\ ltask'[t].pc # "installing"
              /\ installOk' = installOk )
            => /\ ltask'[t].pc = "done"
               /\ ltask'[t].module = None
               /\ ltask'[t].result = [kind |-> "None"]
               /\ hass_data' = hass_data]_vars

\* An installation of with_reqs failed, none succeeded, and the cache
\* exists without the type.
C13_Witness ==
    /\ DATA_REQS \in DOMAIN hass_data
    /\ "with_reqs" \notin hass_data[DATA_REQS]
    /\ installCalls["with_reqs"] >= 1
    /\ installOk["with_reqs"] = 0
    /\ \E t \in Loaders :
          /\ ltask[t].pc = "done"
          /\ ltask[t].config["type"] = "with_reqs"
          /\ ltask[t].installed
          /\ ltask[t].module = None

\* The trusted-network schema rejects config: a key other than type, name
\* and id, or a value of one of these that is not a str.
SchemaRejects(config) ==
    \/ DOMAIN config \ {"type", "name", "id"} # {}
    \/ \E k \in DOMAIN config \cap {"type", "name", "id"} :
          config[k] \in {None, NotAStr}

\* C14: auth_provider_from_config with a trusted_networks config that the
\* schema rejects returns None: it raises nothing and constructs no
\* provider.
C14_InvalidConfigYieldsNone ==
    \A t \in Loaders :
        ( /\ ltask[t].pc = "done"
          /\ ltask[t].config["type"] = "trusted_networks"
          /\ SchemaRejects(ltask[t].config) )
        => ltask[t].result = [kind |-> "None"]

\* A config with an extra key and one with a name that is not a str were
\* both turned down, the module having been loaded.
C14_Witness ==
    \E a, b \in Loaders :
        /\ ltask[a].pc = "done" /\ ltask[b].pc = "done"
        /\ ltask[a].config = [type |-> "trusted_networks", extra |-> "x"]
        /\ ltask[b].config = [type |-> "trusted_networks", name |-> NotAStr]
        /\ ltask[a].module = "trusted_networks"
        /\ ltask[a].result = [kind |-> "None"]
        /\ ltask[b].result = [kind |-> "None"]

\* C15: a type present in the requirement cache is present in every later
\* state: no step removes a type or puts another set in its place.
C15_CacheMonotonic ==
    [][/\ Processed \subseteq
             (IF DATA_REQS \in DOMAIN hass_data' THEN hass_data'[DATA_REQS]
              ELSE {})
       /\ DATA_REQS \in DOMAIN hass_data => DATA_REQS \in DOMAIN hass_data']_vars

\* The cache holds one type while the installation of another is awaited.
C15_Witness ==
    /\ Processed = {"with_reqs"}
    /\ \E t \in Loaders :
          /\ ltask[t].pc = "installing"
          /\ ltask[t].config["type"] = "unregistered"

\* C17: a finished async_credential_flow whose context has no ip_address
\* failed and returned no LoginFlow.
C17_RequiresIpAddress ==
    ( /\ flowCall.pc \in {"raised", "returned"}
      /\ "ip_address" \notin DOMAIN flowCall.context )
    => (flowCall.pc = "raised" /\ flow = NoFlow)

\* C19: a step returns a create-entry result only if, during that step,
\* the flow's ip_address is inside a configured trusted range and
\* user_input.user is a key of available_users, whatever earlier steps
\* found before the trusted networks were changed.
C19_EntryOnlyWhenTrustedNow ==
    [][\A user_input \in UserInputs :
          (StepInit(user_input) /\ stepResult'.type = "create_entry")
          => /\ \E net \in ConfiguredRanges :
                   flow._ip_address \in AddressesIn(net)
             /\ user_input # NoInput
             /\ user_input["user"] \in DOMAIN flow._available_users]_vars

\* An entry was created for u1 from an address that only one of the two
\* configured ranges contains.
C19_Witness ==
    /\ stepResult.type = "create_entry"
    /\ stepInput = [user |-> "u1"]
    /\ \E n1, n2 \in ConfiguredRanges :
          /\ flow._ip_address \in AddressesIn(n1)
          /\ flow._ip_address \notin AddressesIn(n2)

\* C20: async_step_init leaves the flow's provider, ip_address and
\* available_users as they were and starts without errors: from a trusted
\* address a submission naming an available user creates the entry and a
\* step without input shows a form without errors, whatever the steps
\* before returned.
C20_StepKeepsFlowAndNoErrors ==
    [][\A user_input \in UserInputs :
          StepInit(user_input)
          => /\ flow' = flow
             /\ provider_config' = provider_config
             /\ ( /\ AccessGranted
                  /\ user_input # NoInput
                  /\ user_input["user"] \in DOMAIN flow._available_users )
                => stepResult'.type = "create_entry"
             /\ (AccessGranted /\ user_input = NoInput)
                => stepResult' =
                      [type |-> "form", step_id |-> "init",
                       data_schema |-> step_schema(flow),
                       errors |-> << >>]]_vars

\* An entry was created by the step that followed a form shown with
\* errors.
C20_Witness ==
    /\ errorShown
    /\ stepResult.type = "create_entry"
    /\ stepInput["user"] \in DOMAIN flow._available_users

UserIdsOf(us) == [i \in 1..Len(us) |-> us[i].id]

\* C16: when async_get_or_create_credentials reads the users for an entry
\* the flow created for a user of its available_users, and that user has
\* been removed or deactivated since, the call ends there with
\* InvalidUserError, has made no link call, and leaves the store as it
\* was.
C16_StaleUserRejected ==
    [][\A t \in Callers :
          ( /\ ctask[t].pc = "get_users"
            /\ ctask'[t].pc # "get_users"
            /\ flow # NoFlow
            /\ ctask[t].user_id \in DOMAIN flow._available_users
            /\ stepResult.type = "create_entry"
            /\ stepResult.data["user"] = ctask[t].user_id
            /\ NotLoginable(ctask[t].user_id) )
          => /\ ctask'[t].pc = "done"
             /\ ctask'[t].result = [kind |-> "raise", exc |-> "InvalidUserError"]
             /\ ctask'[t].linkCalls = 0
             /\ users' = users]_vars

\* The flow created an entry for a user it listed; two finalizations of
\* it failed with InvalidUserError and without a link call, and the store
\* no longer holds the user.
C16_Witness ==
    \E a, b \in Callers :
        /\ a # b
        /\ flow # NoFlow
        /\ stepResult.type = "create_entry"
        /\ ctask[a].user_id = stepResult.data["user"]
        /\ ctask[b].user_id = ctask[a].user_id
        /\ ctask[a].user_id \in DOMAIN flow._available_users
        /\ ctask[a].started < ctask[b].started
        /\ \A t \in {a, b} :
              /\ ctask[t].pc = "done"
              /\ ctask[t].result = [kind |-> "raise", exc |-> "InvalidUserError"]
              /\ ctask[t].linkCalls = 0
        /\ \A i \in 1..Len(users) : users[i].id # ctask[a].user_id

\* C18: no step of the provider changes which users the store holds;
\* a call reaches its link step only for a user that the list it just read
\* holds as non-system and active; each link call is made from there with
\* credentials created in that step, carrying the provider's type and id
\* and data.user_id equal to that user's id; and the store changes only by
\* the append of a call's credentials to its user.
C18_LinksOnlyOwnNewCredentials ==
    [][/\ UserIdsOf(users') = UserIdsOf(users)
       /\ users' # users
          => \E t \in Callers :
                users' = link_user(users, ctask'[t].user_id, ctask'[t].cred)
       /\ \A t \in Callers :
             /\ (ctask[t].pc # "credentials" /\ ctask'[t].pc = "credentials")
                => \E i \in 1..Len(users) :
                      /\ users[i].id = ctask'[t].user_id
                      /\ ~users[i].system_generated
                      /\ users[i].is_active
             /\ ctask'[t].linkCalls # ctask[t].linkCalls
                => /\ ctask[t].pc = "credentials"
                   /\ ctask'[t].linkCalls = ctask[t].linkCalls + 1
                   /\ ctask'[t].cred.id \notin
                         {c.id : c \in StoredCredentials}
                   /\ ctask'[t].cred.auth_provider_type = type(provider_config)
                   /\ ctask'[t].cred.auth_provider_id = id(provider_config)
                   /\ ctask'[t].cred.data = [user_id |-> ctask[t].user_id]
                   /\ \E i \in 1..Len(users) :
                         /\ users[i].id = ctask[t].user_id
                         /\ ~users[i].system_generated
                         /\ users[i].is_active]_vars

\* A provider with id "a" linked credentials to u2 and returned them.
C18_Witness ==
    \E t \in Callers :
        /\ id(provider_config) = "a"
        /\ ctask[t].pc = "done"
        /\ ctask[t].linkCalls = 1
        /\ ctask[t].user_id = "u2"
        /\ ctask[t].result = [kind |-> "return", cred |-> ctask[t].cred]
        /\ ctask[t].cred \in StoredCredentials
        /\ ctask[t].cred.auth_provider_id = "a"

====
